---- MODULE Spec2Model ----
(***************************************************************************)
(* Model of the form-submission backend in its two deployment variants:    *)
(*   "persist"  src/server/index.js   (files written to uploads/, unique   *)
(*                                     email index)                        *)
(*   "meta"     src/unnamed/part_001  (file metadata only, email not       *)
(*                                     unique)                             *)
(* One request slot per concurrent POST /api/submit-form; every await of   *)
(* the handler is a separate action, so the handlers of different requests *)
(* interleave exactly at the suspension points of the code.                *)
(***************************************************************************)
EXTENDS Integers, Sequences, FiniteSets, TLC

(* ------------------------------ bounds --------------------------------- *)
NReq == 2
MaxParts == 1
MaxClock == 1

(* ------------------------- program constants --------------------------- *)
RateMax == 100
FileSizeLimit == 20 * 1024 * 1024

Categories ==
  {"identityDocument", "residencyProof", "qualifications",
   "businessPermit", "liabilityInsurance", "companyStatutes"}

\* Keys every JS object literal inherits from Object.prototype; the ones a
\* client can send as a field name.
ObjectPrototypeKeys == {"toString"}

NoValue == "undefined"

\* The concurrent requests: Reqs submit (or do either, under the rate limit),
\* Lister lists.
Reqs == 1 .. NReq
Lister == NReq + 1
Slots == Reqs \cup {Lister}
IPs == {"ip1", "ip2"}

(* ------------------------------ inputs --------------------------------- *)
FilePart(fieldname, filename, bytes) ==
  [file |-> TRUE, fieldname |-> fieldname, filename |-> filename,
   bytes |-> bytes, value |-> NoValue]

FieldPart(fieldname, value) ==
  [file |-> FALSE, fieldname |-> fieldname, filename |-> NoValue,
   bytes |-> 0, value |-> value]

FileSizes == {1, FileSizeLimit + 1}

\* Ingestion: file parts under a category, an unknown name and a name every
\* object inherits; scalars under email and under a category's name.
IngestParts ==
  {FilePart(f, "a.pdf", b) : f \in {"identityDocument", "avatar", "toString"},
                             b \in FileSizes}
  \cup {FieldPart("email", "a@x.com"), FieldPart("identityDocument", "x")}

\* Store: scalar parts with two email values.
StoreParts == {FieldPart("email", v) : v \in {"a@x.com", "b@x.com"}}

\* Uploads: small files under two original names, and a scalar.
UploadParts ==
  {FilePart("identityDocument", n, 1) : n \in {"a.pdf", "b.pdf"}}
  \cup {FieldPart("email", "a@x.com")}

\* Assembly: a scalar under a category's name, a file under the same category,
\* and an ordinary scalar.
AssembleParts ==
  {FieldPart("identityDocument", "x"), FilePart("identityDocument", "a.pdf", 1),
   FieldPart("email", "a@x.com")}

\* Rate limit: a POST carries at most a scalar.
RateParts == {FieldPart("email", "a@x.com")}

\* The clients: req.ip and the user-agent header each sends (or omits).
OneClient == [ip |-> "ip1", ua |-> "curl"]

Clients == {OneClient, [ip |-> "ip2", ua |-> NoValue]}

VARIABLES
  variant,    \* which of the two deployments runs
  alive,      \* the node process is running
  now,        \* Date.now()
  hits,       \* rate limiter: requests counted per client address
  pc,         \* per request: where its handler is suspended
  meta,       \* per request: route, req.ip and the user-agent header
  sent,       \* per request: the parts the parser has yielded so far
  cur,        \* per request: the file part being piped, and its savePath
  body,       \* per request: const body
  files,      \* per request: const files
  undrained,  \* per request: a yielded file stream was left unread
  limitHit,   \* per request: a file stream was cut at limits.fileSize
  fault,      \* per request: the failure injected by the environment
  resp,       \* per request: the response sent
  db,         \* the formsubmissions collection, in insertion order
  written     \* the files created in uploads/

vars ==
  <<variant, alive, now, hits, pc, meta, sent, cur, body, files, undrained,
    limitHit, fault, resp, db, written>>

(* --------------------------- JS object helpers ------------------------- *)
EmptyBody == [k \in {} |-> NoValue]

EmptyFiles == [c \in Categories |-> <<>>]

Truthy(s) == s # "" /\ s # NoValue

\* obj[k] = v
Put(obj, k, v) == [x \in DOMAIN obj \cup {k} |-> IF x = k THEN v ELSE obj[x]]

\* What files[part.fieldname] evaluates to on the object literal `files`:
\* one of its own six arrays, a function inherited from Object.prototype,
\* or undefined.
Lookup(fs, k) ==
  IF k \in DOMAIN fs THEN "array"
  ELSE IF k \in ObjectPrototypeKeys THEN "inherited"
  ELSE "undefined"

Str(v) == [t |-> "string", v |-> v]
Arr(v) == [t |-> "array", v |-> v]

\* Spread with the keys of a kept over those of b.
SpreadMutFirstWins(a, b) ==
  [k \in DOMAIN a \cup DOMAIN b |-> IF k \in DOMAIN a THEN a[k] ELSE b[k]]

\* { ...a, ...b } on tagged values: the keys of b override those of a.
Spread(a, b) ==
  [k \in DOMAIN a \cup DOMAIN b |-> IF k \in DOMAIN b THEN b[k] ELSE a[k]]

Min(a, b) == IF a < b THEN a ELSE b

(* ------------------------------ File Sink ------------------------------ *)
\* path.join(UPLOADS_DIR, `${Date.now()}-${part.filename}`)
SavePath(t, filename) == [dir |-> "uploads", base |-> <<t, filename>>]

Basename(path) == path.base

\* The bytes the multipart parser hands to the file stream: at most
\* limits.fileSize, the rest of the part is cut off.
Drained(p) == Min(p.bytes, FileSizeLimit)

\* part.file.bytesRead once 'end' has fired, `|| 0` applied.
BytesReadAtEnd(p) == IF Drained(p) = 0 THEN 0 ELSE Drained(p)

\* part.file.bytesRead when the part has only just been yielded: whatever the
\* parser has pushed so far.
BytesReadSoFar(p) == {0, Drained(p)}

FileDataPersist(p, path) ==
  [originalname |-> p.filename, size |-> BytesReadAtEnd(p),
   path |-> path, filename |-> Basename(path)]

FileDataMeta(p, n) == [originalname |-> p.filename, size |-> n]

Push(fs, k, rec) == [fs EXCEPT ![k] = Append(@, rec)]

(* ------------------------------ responses ------------------------------ *)
NoResp ==
  [status |-> 0, success |-> FALSE, message |-> NoValue, id |-> 0,
   count |-> 0, data |-> <<>>, at |-> 0]

Reply(status, success, message) ==
  [NoResp EXCEPT !.status = status, !.success = success, !.message = message]

SuccessMessage(v) ==
  IF v = "persist" THEN "Form submitted successfully!"
  ELSE "Formulaire soumis avec succes"

SubmitOk(v, id) == [Reply(200, TRUE, SuccessMessage(v)) EXCEPT !.id = id]

InternalError == Reply(500, FALSE, "Internal server error")

FetchError == Reply(500, FALSE, "Failed to fetch submissions")

\* The rejection of @fastify/rate-limit: its own 429, or, where the plugin
\* throws the rejection, the 500 of the application's error handler.
RateLimitReplies ==
  {Reply(429, FALSE, "Too many requests from this IP"),
   Reply(500, FALSE, "An unexpected error occurred")}

(* -------------------------- Submission Store --------------------------- *)
\* formSchema.email: { unique: true } in index.js, { unique: false } in the
\* metadata-only variant.
UniqueEmailMutOff(v) == FALSE

UniqueEmail(v) == v = "persist"

\* req.headers['user-agent'] || 'Unknown'
UserAgent(v, header) ==
  IF Truthy(header) THEN header
  ELSE IF v = "persist" THEN "Unknown" ELSE "Unknown User Agent"

\* { ...body, ...files, ipAddress, userAgent }
Assemble(b, fs, ipAddress, userAgent) ==
  Spread(Spread([k \in DOMAIN b |-> Str(b[k])],
                [c \in DOMAIN fs |-> Arr(fs[c])]),
         [ipAddress |-> Str(ipAddress), userAgent |-> Str(userAgent)])

\* new FormSubmission(obj): the schema's paths of obj.  The email path is
\* absent (NoValue) when no scalar part set it.
NewFormSubmission(obj) ==
  [email |-> IF "email" \in DOMAIN obj THEN obj["email"].v ELSE NoValue,
   identityDocument |-> obj["identityDocument"],
   residencyProof |-> obj["residencyProof"],
   qualifications |-> obj["qualifications"],
   businessPermit |-> obj["businessPermit"],
   liabilityInsurance |-> obj["liabilityInsurance"],
   companyStatutes |-> obj["companyStatutes"],
   ipAddress |-> obj["ipAddress"].v,
   userAgent |-> obj["userAgent"].v]

\* What save() stores: the document with _id, the timestamps and __v.
Stored(doc, id, t) ==
  [k \in DOMAIN doc \cup {"_id", "createdAt", "updatedAt", "__v"} |->
     IF k = "_id" THEN id
     ELSE IF k \in {"createdAt", "updatedAt"} THEN t
     ELSE IF k = "__v" THEN 0
     ELSE doc[k]]

\* The unique index on email refuses a second document with the same key; a
\* document without email is indexed under null, like any other value.
DuplicateKey(v, coll, doc) ==
  UniqueEmail(v) /\ \E i \in 1 .. Len(coll) : coll[i].email = doc.email

\* .select('-__v -updatedAt -ipAddress -userAgent')
Excluded == {"__v", "updatedAt", "ipAddress", "userAgent"}

Select(d) == [k \in DOMAIN d \ Excluded |-> d[k]]

\* .sort({ createdAt: -1 })
InOrderMutAscending(a, b) == a <= b

InOrder(a, b) == a >= b

SortedDesc(s) ==
  \A i \in 1 .. Len(s) - 1 : InOrder(s[i].createdAt, s[i + 1].createdAt)

Perms(n) == {f \in [1 .. n -> 1 .. n] : \A i, j \in 1 .. n : f[i] = f[j] => i = j}

\* find({}).select(...).sort(...).lean(): every order the sort allows.
Find(coll) ==
  {s \in {[k \in 1 .. Len(coll) |-> Select(coll[f[k]])] : f \in Perms(Len(coll))} :
     SortedDesc(s)}

(* ----------------------------- rate limiter ---------------------------- *)
\* The count of the client's window after this request; it is not counted
\* past the first refusal.
Counted(h) == Min(h + 1, RateMax + 1)

AdmittedMutOffByOne(n) == n <= RateMax + 1

Admitted(n) == n <= RateMax

(* ------------------------------- Init ---------------------------------- *)
\* The state once the server listens, h requests into the clients' windows.
InitWith(h) ==
  /\ variant \in {"persist", "meta"}
  /\ alive = TRUE
  /\ now = 0
  /\ hits = h
  /\ pc = [r \in Slots |-> "idle"]
  /\ meta = [r \in Slots |-> [route |-> NoValue, ip |-> NoValue, ua |-> NoValue]]
  /\ sent = [r \in Slots |-> <<>>]
  /\ cur = [r \in Slots |-> <<>>]
  /\ body = [r \in Slots |-> EmptyBody]
  /\ files = [r \in Slots |-> EmptyFiles]
  /\ undrained = [r \in Slots |-> "none"]
  /\ limitHit = [r \in Slots |-> FALSE]
  /\ fault = [r \in Slots |-> "none"]
  /\ resp = [r \in Slots |-> NoResp]
  /\ db = <<>>
  /\ written = {}

Init == InitWith([i \in IPs |-> 0])

\* A window of ip1 that is fresh, or one request short of the quota (after
\* RateMax - 1 listings, which leave nothing in the store).
InitRate ==
  \E h \in {0, RateMax - 1} : InitWith([i \in IPs |-> IF i = "ip1" THEN h ELSE 0])

(* --------------------------- environment ------------------------------- *)
\* A millisecond passes.
Tick ==
  /\ alive
  /\ now < MaxClock
  /\ now' = now + 1
  /\ UNCHANGED <<variant, alive, hits, pc, meta, sent, cur, body, files,
                 undrained, limitHit, fault, resp, db, written>>

\* The client's 15-minute window ends.
WindowExpire(i) ==
  /\ alive
  /\ hits[i] > 0
  /\ hits' = [hits EXCEPT ![i] = 0]
  /\ UNCHANGED <<variant, alive, now, pc, meta, sent, cur, body, files,
                 undrained, limitHit, fault, resp, db, written>>

(* ------------------- onRequest: the rate limiter ----------------------- *)
\* The request is within the quota: the route's handler starts.  For
\* POST /api/submit-form it creates body and files and awaits the first part;
\* for GET /api/submissions it awaits the query.
Admit(r, route, i, ua) ==
  /\ alive
  /\ pc[r] = "idle"
  /\ Admitted(Counted(hits[i]))
  /\ hits' = [hits EXCEPT ![i] = Counted(hits[i])]
  /\ meta' = [meta EXCEPT ![r] = [route |-> route, ip |-> i, ua |-> ua]]
  /\ pc' = [pc EXCEPT ![r] = IF route = "POST" THEN "parts" ELSE "query"]
  /\ body' = [body EXCEPT ![r] = EmptyBody]
  /\ files' = [files EXCEPT ![r] = EmptyFiles]
  /\ UNCHANGED <<variant, alive, now, sent, cur, undrained, limitHit, fault,
                 resp, db, written>>

\* The request is beyond the quota: it is answered by the plugin and the
\* handler never runs.
Reject(r, route, i, ua) ==
  /\ alive
  /\ pc[r] = "idle"
  /\ ~Admitted(Counted(hits[i]))
  /\ hits' = [hits EXCEPT ![i] = Counted(hits[i])]
  /\ meta' = [meta EXCEPT ![r] = [route |-> route, ip |-> i, ua |-> ua]]
  /\ pc' = [pc EXCEPT ![r] = "limited"]
  /\ \E rej \in RateLimitReplies : resp' = [resp EXCEPT ![r] = rej]
  /\ UNCHANGED <<variant, alive, now, sent, cur, body, files, undrained,
                 limitHit, fault, db, written>>

(* ---------------- POST /api/submit-form: the part loop ----------------- *)
\* `for await (const part of parts)` resumes with the next part.  The parser
\* yields nothing more while an unread file stream holds it back.
Yields(r) ==
  /\ alive
  /\ pc[r] = "parts"
  /\ Len(sent[r]) < MaxParts
  /\ undrained[r] # "blocked"

\* catch (error): reply.status(500).send({ success: false, message })
Catch(r) ==
  /\ pc' = [pc EXCEPT ![r] = "done500"]
  /\ resp' = [resp EXCEPT ![r] = InternalError]

\* body[part.fieldname] = part.value
ScalarPart(r, p) ==
  /\ Yields(r)
  /\ ~p.file
  /\ Truthy(p.fieldname)
  /\ sent' = [sent EXCEPT ![r] = Append(@, p)]
  /\ body' = [body EXCEPT ![r] = Put(@, p.fieldname, p.value)]
  /\ UNCHANGED <<variant, alive, now, hits, pc, meta, cur, files, undrained,
                 limitHit, fault, resp, db, written>>

\* index.js: the file part is piped to fs.createWriteStream(savePath) and the
\* handler awaits the stream's 'end' or 'error'.
PipeFilePart(r, p) ==
  /\ Yields(r)
  /\ variant = "persist"
  /\ p.file
  /\ sent' = [sent EXCEPT ![r] = Append(@, p)]
  /\ cur' = [cur EXCEPT ![r] = [part |-> p, savePath |-> SavePath(now, p.filename)]]
  /\ written' = written \cup
       {[path |-> SavePath(now, p.filename), req |-> r, idx |-> Len(sent[r]) + 1]}
  /\ pc' = [pc EXCEPT ![r] = "draining"]
  /\ UNCHANGED <<variant, alive, now, hits, meta, body, files, undrained,
                 limitHit, fault, resp, db>>

\* 'end': fileData is built; files[part.fieldname] is one of the six arrays.
FileEndPush(r) ==
  /\ alive
  /\ pc[r] = "draining"
  /\ Lookup(files[r], cur[r].part.fieldname) = "array"
  /\ files' = [files EXCEPT ![r] =
       Push(@, cur[r].part.fieldname, FileDataPersist(cur[r].part, cur[r].savePath))]
  /\ limitHit' = [limitHit EXCEPT ![r] = @ \/ cur[r].part.bytes > FileSizeLimit]
  /\ pc' = [pc EXCEPT ![r] = "parts"]
  /\ cur' = [cur EXCEPT ![r] = <<>>]
  /\ UNCHANGED <<variant, alive, now, hits, meta, sent, body, undrained,
                 fault, resp, db, written>>

\* 'end': files[part.fieldname] is undefined, the file is not recorded.
FileEndDrop(r) ==
  /\ alive
  /\ pc[r] = "draining"
  /\ Lookup(files[r], cur[r].part.fieldname) = "undefined"
  /\ limitHit' = [limitHit EXCEPT ![r] = @ \/ cur[r].part.bytes > FileSizeLimit]
  /\ pc' = [pc EXCEPT ![r] = "parts"]
  /\ cur' = [cur EXCEPT ![r] = <<>>]
  /\ UNCHANGED <<variant, alive, now, hits, meta, sent, body, files, undrained,
                 fault, resp, db, written>>

\* 'end': files[part.fieldname] is a function of Object.prototype, truthy and
\* without push: TypeError, caught.
FileEndThrow(r) ==
  /\ alive
  /\ pc[r] = "draining"
  /\ Lookup(files[r], cur[r].part.fieldname) = "inherited"
  /\ Catch(r)
  /\ cur' = [cur EXCEPT ![r] = <<>>]
  /\ UNCHANGED <<variant, alive, now, hits, meta, sent, body, files, undrained,
                 limitHit, fault, db, written>>

\* part.file emits 'error' (the client aborts): the promise rejects.
FileError(r) ==
  /\ alive
  /\ pc[r] = "draining"
  /\ fault' = [fault EXCEPT ![r] = "stream"]
  /\ Catch(r)
  /\ cur' = [cur EXCEPT ![r] = <<>>]
  /\ UNCHANGED <<variant, alive, now, hits, meta, sent, body, files, undrained,
                 limitHit, db, written>>

\* writeStream emits 'error' (disk full, no permission).  Nothing listens:
\* pipe() unpipes and re-emits it, the unhandled 'error' event ends the
\* process, and no request in flight is answered.
WriteError(r) ==
  /\ alive
  /\ pc[r] = "draining"
  /\ fault' = [fault EXCEPT ![r] = "write"]
  /\ alive' = FALSE
  /\ UNCHANGED <<variant, now, hits, pc, meta, sent, cur, body, files,
                 undrained, limitHit, resp, db, written>>

\* part_001: the file part is recorded at once with part.file.bytesRead as it
\* stands, and its stream is never read.
MetaFilePush(r, p, n) ==
  /\ Yields(r)
  /\ variant = "meta"
  /\ p.file /\ Truthy(p.fieldname)
  /\ Lookup(files[r], p.fieldname) = "array"
  /\ n \in BytesReadSoFar(p)
  /\ sent' = [sent EXCEPT ![r] = Append(@, p)]
  /\ files' = [files EXCEPT ![r] = Push(@, p.fieldname, FileDataMeta(p, n))]
  /\ undrained' = [undrained EXCEPT ![r] =
       IF p.bytes > FileSizeLimit \/ @ = "blocked" THEN "blocked" ELSE "buffered"]
  /\ UNCHANGED <<variant, alive, now, hits, pc, meta, cur, body, limitHit,
                 fault, resp, db, written>>

\* part_001: files[part.fieldname] is not an array: .push throws a TypeError,
\* caught.
MetaFileThrow(r, p) ==
  /\ Yields(r)
  /\ variant = "meta"
  /\ p.file /\ Truthy(p.fieldname)
  /\ Lookup(files[r], p.fieldname) # "array"
  /\ sent' = [sent EXCEPT ![r] = Append(@, p)]
  /\ Catch(r)
  /\ UNCHANGED <<variant, alive, now, hits, meta, cur, body, files, undrained,
                 limitHit, fault, db, written>>

\* The part iterator rejects: the body is malformed or the connection broke.
StreamError(r) ==
  /\ alive
  /\ pc[r] = "parts"
  /\ fault' = [fault EXCEPT ![r] = "stream"]
  /\ Catch(r)
  /\ UNCHANGED <<variant, alive, now, hits, meta, sent, cur, body, files,
                 undrained, limitHit, db, written>>

\* The iterator rejects with RequestFileTooLargeError where the multipart
\* plugin reports a cut file stream to the consumer of parts().
LimitThrow(r) ==
  /\ alive
  /\ pc[r] = "parts"
  /\ limitHit[r]
  /\ Catch(r)
  /\ UNCHANGED <<variant, alive, now, hits, meta, sent, cur, body, files,
                 undrained, limitHit, fault, db, written>>

\* The parser waits for a file stream nobody reads: the next part, or the end
\* of the parts, never comes.
Stall(r) ==
  /\ alive
  /\ pc[r] = "parts"
  /\ undrained[r] # "none"
  /\ pc' = [pc EXCEPT ![r] = "stalled"]
  /\ UNCHANGED <<variant, alive, now, hits, meta, sent, cur, body, files,
                 undrained, limitHit, fault, resp, db, written>>

\* The iterator is done: new FormSubmission({...}), then await save().
EndOfParts(r) ==
  /\ alive
  /\ pc[r] = "parts"
  /\ undrained[r] # "blocked"
  /\ pc' = [pc EXCEPT ![r] = "saving"]
  /\ UNCHANGED <<variant, alive, now, hits, meta, sent, cur, body, files,
                 undrained, limitHit, fault, resp, db, written>>

(* --------------- POST /api/submit-form: save and reply ----------------- *)
Submission(r) ==
  NewFormSubmission(
    Assemble(body[r], files[r], meta[r].ip, UserAgent(variant, meta[r].ua)))

\* save() resolves: the document is inserted and the success reply sent.
SaveOk(r) ==
  /\ alive
  /\ pc[r] = "saving"
  /\ ~DuplicateKey(variant, db, Submission(r))
  /\ db' = Append(db, Stored(Submission(r), Len(db) + 1, now))
  /\ pc' = [pc EXCEPT ![r] = "done200"]
  /\ resp' = [resp EXCEPT ![r] = SubmitOk(variant, Len(db) + 1)]
  /\ UNCHANGED <<variant, alive, now, hits, meta, sent, cur, body, files,
                 undrained, limitHit, fault, written>>

\* save() rejects with the duplicate-key error of the unique index.
SaveDuplicate(r) ==
  /\ alive
  /\ pc[r] = "saving"
  /\ DuplicateKey(variant, db, Submission(r))
  /\ fault' = [fault EXCEPT ![r] = "duplicate"]
  /\ Catch(r)
  /\ UNCHANGED <<variant, alive, now, hits, meta, sent, cur, body, files,
                 undrained, limitHit, db, written>>

\* save() rejects: the store cannot be reached.
SaveFail(r) ==
  /\ alive
  /\ pc[r] = "saving"
  /\ fault' = [fault EXCEPT ![r] = "store"]
  /\ Catch(r)
  /\ UNCHANGED <<variant, alive, now, hits, meta, sent, cur, body, files,
                 undrained, limitHit, db, written>>

(* ------------------------ GET /api/submissions ------------------------- *)
QueryOk(r) ==
  /\ alive
  /\ pc[r] = "query"
  /\ \E data \in Find(db) :
       resp' = [resp EXCEPT ![r] =
         [Reply(200, TRUE, NoValue) EXCEPT
            !.count = Len(data), !.data = data, !.at = Len(db)]]
  /\ pc' = [pc EXCEPT ![r] = "done200"]
  /\ UNCHANGED <<variant, alive, now, hits, meta, sent, cur, body, files,
                 undrained, limitHit, fault, db, written>>

QueryFail(r) ==
  /\ alive
  /\ pc[r] = "query"
  /\ fault' = [fault EXCEPT ![r] = "store"]
  /\ pc' = [pc EXCEPT ![r] = "done500"]
  /\ resp' = [resp EXCEPT ![r] = FetchError]
  /\ UNCHANGED <<variant, alive, now, hits, meta, sent, cur, body, files,
                 undrained, limitHit, db, written>>

(* --------------------------- specifications ---------------------------- *)
Arrive(r, Routes, Cs) ==
  \E route \in Routes, c \in Cs : Admit(r, route, c.ip, c.ua)

\* The steps of a submission, whatever its parts.
HandlePost(r, Parts) ==
  \/ \E p \in Parts : ScalarPart(r, p)
  \/ EndOfParts(r)
  \/ SaveOk(r)
  \/ SaveDuplicate(r)
  \/ SaveFail(r)

\* The body breaks off while it is received.
HandleAbort(r) == StreamError(r)

\* The steps a file part under a known category adds.
HandleFile(r, Parts) ==
  \/ \E p \in Parts : PipeFilePart(r, p)
  \/ FileEndPush(r)
  \/ FileError(r)
  \/ WriteError(r)
  \/ \E p \in Parts : \E n \in BytesReadSoFar(p) : MetaFilePush(r, p, n)
  \/ Stall(r)

\* The steps that only an unrecognised or an oversized file part adds.
HandleOdd(r, Parts) ==
  \/ FileEndDrop(r)
  \/ FileEndThrow(r)
  \/ \E p \in Parts : MetaFileThrow(r, p)
  \/ LimitThrow(r)

HandleGet(r) ==
  \/ QueryOk(r)
  \/ QueryFail(r)

\* Ingestion of concurrent submissions.
Next ==
  \/ \E r \in Reqs : Arrive(r, {"POST"}, {OneClient})
  \/ \E r \in Reqs : HandlePost(r, IngestParts)
  \/ \E r \in Reqs : HandleFile(r, IngestParts)
  \/ \E r \in Reqs : HandleOdd(r, IngestParts)
  \/ \E r \in Reqs : HandleAbort(r)

Spec == Init /\ [][Next]_vars

\* Submissions and listings against the shared store.
NextStore ==
  \/ Tick
  \/ \E r \in Reqs : Arrive(r, {"POST"}, {OneClient})
  \/ Arrive(Lister, {"GET"}, {OneClient})
  \/ \E r \in Reqs : HandlePost(r, StoreParts)
  \/ HandleGet(Lister)

SpecStore == Init /\ [][NextStore]_vars

\* Uploads of files into the shared uploads directory.
NextUpload ==
  \/ Tick
  \/ \E r \in Reqs : Arrive(r, {"POST"}, {OneClient})
  \/ \E r \in Reqs : HandlePost(r, UploadParts)
  \/ \E r \in Reqs : HandleFile(r, UploadParts)
  \/ \E r \in Reqs : HandleAbort(r)

SpecUpload == Init /\ [][NextUpload]_vars

\* Assembly of the Submission from scalars and files.
NextAssemble ==
  \/ \E r \in Reqs : Arrive(r, {"POST"}, {OneClient})
  \/ \E r \in Reqs : HandlePost(r, AssembleParts)
  \/ \E r \in Reqs : HandleFile(r, AssembleParts)
  \/ \E r \in Reqs : HandleAbort(r)

SpecAssemble == Init /\ [][NextAssemble]_vars

\* Admission by the rate limiter.
NextRate ==
  \/ \E i \in IPs : WindowExpire(i)
  \/ \E r \in Reqs : Arrive(r, {"POST", "GET"}, Clients)
  \/ \E r \in Reqs, route \in {"POST", "GET"}, c \in Clients :
       Reject(r, route, c.ip, c.ua)
  \/ \E r \in Reqs : HandlePost(r, RateParts)
  \/ \E r \in Reqs : HandleGet(r)

SpecRate == InitRate /\ [][NextRate]_vars

(* ------------------------------- claims -------------------------------- *)
Posted(r) == meta[r].route = "POST"

Finished(r) == pc[r] \in {"done200", "done500"}

Succeeded(r) == Posted(r) /\ pc[r] = "done200"

\* The Submission a successful request was answered with.
DocOf(r) == db[resp[r].id]

\* Every stored Submission is the one some successful request was answered
\* with: a request that did not succeed stored nothing.
DocsOwned == \A k \in 1 .. Len(db) : \E r \in Reqs : Succeeded(r) /\ resp[r].id = k

IsFilePartOf(p, c) == p.file /\ p.fieldname = c

FilePartsOf(r, c) == SelectSeq(sent[r], LAMBDA p : IsFilePartOf(p, c))

Oversized(r) ==
  \E k \in 1 .. Len(sent[r]) : sent[r][k].file /\ sent[r][k].bytes > FileSizeLimit

\* C1: every request that the environment does not fail (no stream error, no
\* write or store failure, no oversized file) succeeds, and each of the six
\* lists of its Submission has as many records as file parts were sent under
\* that name; a file part under any other name is left out and fails nothing.
C1_CountsMatch ==
  \A r \in Reqs :
    (Posted(r) /\ Finished(r) /\ fault[r] = "none" /\ ~Oversized(r)) =>
      /\ pc[r] = "done200"
      /\ \A c \in Categories :
           /\ DocOf(r)[c].t = "array"
           /\ Len(DocOf(r)[c].v) = Len(FilePartsOf(r, c))

\* C2: a request hit by a stream error, a failed write of the File Sink or a
\* failed save is answered 500 with the fixed generic message, and stores no
\* Submission.
C2_FailuresAnswered ==
  /\ DocsOwned
  /\ \A r \in Reqs :
       fault[r] \in {"stream", "write", "store"} =>
         pc[r] = "done500" /\ resp[r] = InternalError

EmailOf(r) == IF "email" \in DOMAIN body[r] THEN body[r]["email"] ELSE NoValue

\* The finished submissions that carried email e and that nothing but the
\* unique index could have failed.
SameEmail(e) ==
  {r \in Reqs : Posted(r) /\ Finished(r) /\ EmailOf(r) = e
                /\ fault[r] \in {"none", "duplicate"}}

DocsWithEmail(e) == {k \in 1 .. Len(db) : db[k].email = e}

\* C3: with the unique index on email (index.js), of the finished requests
\* that carried the same email, however they interleaved, exactly one stored a
\* Submission and got the success reply with its id; every other one got the
\* generic 500; and only one Submission has that email.
C3_OnePerEmail ==
  variant = "persist" =>
    \A e \in {"a@x.com", "b@x.com", NoValue} :
      /\ Cardinality(DocsWithEmail(e)) <= 1
      /\ SameEmail(e) # {} =>
           /\ Cardinality({r \in SameEmail(e) : pc[r] = "done200"}) = 1
           /\ Cardinality(DocsWithEmail(e)) = 1
           /\ \A r \in SameEmail(e) :
                \/ pc[r] = "done200" /\ resp[r].success /\ DocOf(r).email = e
                \/ pc[r] = "done500" /\ resp[r] = InternalError

C3_Witness ==
  /\ variant = "persist"
  /\ \E r1, r2 \in Reqs :
       /\ r1 # r2
       /\ {r1, r2} \subseteq SameEmail("a@x.com")
       /\ pc[r1] = "done200" /\ pc[r2] = "done500" /\ fault[r2] = "duplicate"

Listed(r) == meta[r].route = "GET" /\ pc[r] = "done200"

\* C4: the number of stored Submissions is the number of successful
\* submissions, and a listing that succeeds returns exactly the Submissions
\* stored when it ran, count equal to their number (0 and the empty list when
\* there is none), newest first, none with ipAddress, userAgent or __v.
C4_Listing ==
  /\ Len(db) = Cardinality({r \in Reqs : Succeeded(r)})
  /\ \A r \in Slots :
       Listed(r) =>
         /\ resp[r].success /\ resp[r].status = 200
         /\ resp[r].count = resp[r].at
         /\ Len(resp[r].data) = resp[r].count
         /\ {resp[r].data[k]._id : k \in 1 .. Len(resp[r].data)} = 1 .. resp[r].at
         /\ \A k \in 1 .. Len(resp[r].data) :
              LET d == resp[r].data[k] IN
                /\ DOMAIN d \cap {"ipAddress", "userAgent", "__v"} = {}
                /\ \A f \in DOMAIN d : d[f] = db[d._id][f]
                /\ DOMAIN db[d._id] \ DOMAIN d \subseteq Excluded
         /\ \A k \in 1 .. Len(resp[r].data) - 1 :
              resp[r].data[k].createdAt >= resp[r].data[k + 1].createdAt

C4_Witness ==
  /\ Listed(Lister)
  /\ resp[Lister].count = 2
  /\ resp[Lister].data[1].createdAt > resp[Lister].data[2].createdAt
  /\ resp[Lister].data[1]._id = 2

\* C5: a request with a file part over the per-file limit is rejected: it is
\* never answered with success and never left without an answer, and stores
\* no Submission.
C5_OversizeRejected ==
  /\ DocsOwned
  /\ \A r \in Reqs : Oversized(r) => pc[r] \notin {"done200", "stalled"}

WrittenBy(r) == {w \in written : w.req = r}

Untouched(r) == sent[r] = <<>> /\ WrittenBy(r) = {} /\ resp[r].id = 0

\* C6: a request is refused exactly when its client has already used the
\* RateMax requests of its window; a refused request is answered without
\* success, stays refused, and its handler has read no part, written no file
\* and stored no Submission; a request within the quota reaches its handler.
C6_RateLimited ==
  /\ [](DocsOwned /\ \A r \in Reqs :
          pc[r] = "limited" => ~resp[r].success /\ resp[r].status # 200 /\ Untouched(r))
  /\ [][\A r \in Reqs :
          /\ (pc[r] = "idle" /\ pc'[r] # "idle") =>
               /\ hits[meta'[r].ip] >= RateMax =>
                    pc'[r] = "limited" /\ db' = db /\ written' = written
               /\ hits[meta'[r].ip] < RateMax => pc'[r] \in {"parts", "query"}
          /\ pc[r] = "limited" => pc'[r] = "limited" /\ Untouched(r)']_vars

C6_Witness ==
  \E r1, r2 \in Reqs :
    /\ pc[r1] = "limited" /\ meta[r1].ip = "ip1"
    /\ Succeeded(r2) /\ meta[r2].ip = "ip1"
    /\ hits["ip1"] = RateMax + 1

\* C7: every stored Submission has its six file lists, as lists, whatever the
\* parts were (a scalar named like a category included); a request without
\* file parts that the environment does not fail succeeds, and the six lists
\* of its Submission are empty.
C7_SixLists ==
  /\ \A k \in 1 .. Len(db) : \A c \in Categories :
       c \in DOMAIN db[k] /\ db[k][c].t = "array"
  /\ \A r \in Reqs :
       (Posted(r) /\ Finished(r) /\ \A c \in Categories : FilePartsOf(r, c) = <<>>) =>
          /\ fault[r] = "none" => pc[r] = "done200"
          /\ pc[r] = "done200" => \A c \in Categories : DocOf(r)[c] = Arr(<<>>)

C7_Witness ==
  \E r \in Reqs :
    /\ Succeeded(r)
    /\ sent[r] = <<FieldPart("identityDocument", "x")>>
    /\ DocOf(r)["identityDocument"] = Arr(<<>>)

\* C8: the size of every record of a stored Submission is the number of bytes
\* of its file part as fully drained.
C8_SizeIsDrained ==
  \A r \in Reqs :
    Succeeded(r) =>
      \A c \in Categories :
        LET recs == DocOf(r)[c].v
            parts == FilePartsOf(r, c)
        IN  Len(recs) = Len(parts) =>
              \A k \in 1 .. Len(recs) : recs[k].size = Drained(parts[k])

\* C9: no request is left without an answer: the handler never awaits the
\* next part with a file stream unread, no request waits on a parser that
\* will not go on, and none is cut off by the process ending under it.
C9_NeverLeftPending ==
  \A r \in Reqs :
    /\ pc[r] = "parts" => undrained[r] = "none"
    /\ pc[r] # "stalled"
    /\ alive \/ pc[r] \in {"idle", "limited", "done200", "done500"}

\* C10: no two files created in uploads/ share a path.
C10_DistinctPaths ==
  \A w1, w2 \in written : w1 # w2 => w1.path # w2.path

====
